---- MODULE Spec2Model ----
(***************************************************************************)
(* Model of package traceparent (src/traceparent.go): the middleware New,  *)
(* the context carrier Trace.Context and the slog extractor                *)
(* TraceParentExtractor.                                                   *)
(*                                                                         *)
(* Strings are sequences of one-character strings, so that strings.Split   *)
(* and strconv.ParseInt are computed character by character as the         *)
(* library does.  Contexts are immutable nodes of one shared heap; a       *)
(* context reference is <<g, n>>, the n-th node goroutine g allocated      *)
(* (goroutine 0 is the server before it accepts requests), and <<0, 0>> is *)
(* context.Background.                                                     *)
(***************************************************************************)
EXTENDS Integers, Sequences, FiniteSets, TLC

(***************************************************************************)
(* Bounds of the model.                                                    *)
(***************************************************************************)
\* number of requests handled concurrently
NumReq == 2
\* most context nodes the heap may hold; an allocation beyond it is not taken
MaxCtx == 4
\* deepest nesting New(New(...(inner))) of the middleware
MaxLayers == 2
\* most segments of a generated malformed header
MaxParts == 5

(***************************************************************************)
(* Program constants.                                                      *)
(***************************************************************************)
\* strconv.ParseInt(traceparent[3], 16, 8): the base
FlagsBase == 16
\* strconv.ParseInt(traceparent[3], 16, 8): the bit size
FlagsBitSize == 8
\* len(traceparent) == 4
NumSegments == 4

(***************************************************************************)
(* strings.Split(s, "-").  Never returns an empty list: Split("", "-") is  *)
(* the one-element list holding the empty string.                          *)
(***************************************************************************)
RECURSIVE SplitFrom(_, _, _, _, _)
SplitFrom(s, sep, i, cur, acc) ==
    IF i > Len(s) THEN Append(acc, cur)
    ELSE IF s[i] = sep THEN SplitFrom(s, sep, i + 1, <<>>, Append(acc, cur))
    ELSE SplitFrom(s, sep, i + 1, Append(cur, s[i]), acc)

Split(s, sep) == SplitFrom(s, sep, 1, <<>>, <<>>)

(***************************************************************************)
(* strconv.ParseInt(s, base, bitSize) for 2 <= base <= 16 given            *)
(* explicitly (no prefix, no underscores).  The result is [n, err]; err is *)
(* "nil", "syntax" or "range".                                             *)
(***************************************************************************)
DigitChars ==
    <<"0", "1", "2", "3", "4", "5", "6", "7", "8", "9", "a", "b", "c", "d", "e", "f">>

UpperChars == <<"A", "B", "C", "D", "E", "F">>

IndexOf(seq, c) ==
    IF \E k \in 1..Len(seq) : seq[k] = c
    THEN CHOOSE k \in 1..Len(seq) : seq[k] = c
    ELSE 0

\* the value of one digit character, or -1 when it is no digit (of any base)
DigitVal(c) ==
    IF IndexOf(DigitChars, c) > 0 THEN IndexOf(DigitChars, c) - 1
    ELSE IF IndexOf(UpperChars, c) > 0 THEN IndexOf(UpperChars, c) + 9
    ELSE -1

RECURSIVE Pow(_, _)
Pow(b, e) == IF e = 0 THEN 1 ELSE b * Pow(b, e - 1)

\* strconv.ParseUint without the 64-bit cutoff: the only caller rejects
\* every value of 2^(bitSize-1) or more, so a 64-bit overflow and a value
\* that is merely too large both end in a range error.
RECURSIVE ParseUintFrom(_, _, _, _)
ParseUintFrom(s, base, i, n) ==
    IF i > Len(s) THEN [n |-> n, err |-> "nil"]
    ELSE IF DigitVal(s[i]) < 0 \/ DigitVal(s[i]) >= base THEN [n |-> 0, err |-> "syntax"]
    ELSE ParseUintFrom(s, base, i + 1, n * base + DigitVal(s[i]))

ParseUint(s, base) ==
    IF Len(s) = 0 THEN [n |-> 0, err |-> "syntax"]
    ELSE ParseUintFrom(s, base, 1, 0)

ParseInt(s, base, bitSize) ==
    IF Len(s) = 0 THEN [n |-> 0, err |-> "syntax"]
    ELSE LET neg == s[1] = "-"
             body == IF s[1] = "+" \/ s[1] = "-" THEN Tail(s) ELSE s
             un == ParseUint(body, base)
             cutoff == Pow(2, bitSize - 1)
         IN  IF un.err # "nil" THEN [n |-> 0, err |-> un.err]
             ELSE IF ~neg /\ un.n >= cutoff THEN [n |-> cutoff - 1, err |-> "range"]
             ELSE IF neg /\ un.n > cutoff THEN [n |-> 0 - cutoff, err |-> "range"]
             ELSE [n |-> IF neg THEN 0 - un.n ELSE un.n, err |-> "nil"]

(***************************************************************************)
(* Contexts.  A node is [parent, key, val]; context.WithValue allocates a  *)
(* new node and leaves every existing node alone; ctx.Value walks to the   *)
(* nearest node with an equal key.                                         *)
(***************************************************************************)
Background == <<0, 0>>

Nil == [type |-> "nil"]

\* traceContextKeyT{}: the unexported key type of the package
traceContextKeyT == [type |-> "traceparent.traceContextKeyT", v |-> "{}"]

\* the reference of the node goroutine g allocates next
NewRef(heap, g) == <<g, 1 + Cardinality({c \in DOMAIN heap : c[1] = g})>>

\* a faulty WithValue: allocates the child and also stores the pair in the
\* parent node
WithValue_InPlace(heap, g, ctx, key, val) ==
    LET node == [parent |-> ctx, key |-> key, val |-> val]
        grown == heap @@ (NewRef(heap, g) :> node)
    IN  IF ctx = Background THEN grown
        ELSE [grown EXCEPT ![ctx] = [@ EXCEPT !.key = key, !.val = val]]

\* context.WithValue(ctx, key, val) called by goroutine g: the heap after
\* the allocation; the new context is NewRef(heap, g).
WithValue(heap, g, ctx, key, val) ==
    heap @@ (NewRef(heap, g) :> [parent |-> ctx, key |-> key, val |-> val])

\* a faulty Value: compares the keys' values and not their types
RECURSIVE Value_KeyByValue(_, _, _)
Value_KeyByValue(heap, ctx, key) ==
    IF ctx = Background THEN Nil
    ELSE IF heap[ctx].key.v = key.v THEN heap[ctx].val
    ELSE Value_KeyByValue(heap, heap[ctx].parent, key)

RECURSIVE Value(_, _, _)
Value(heap, ctx, key) ==
    IF ctx = Background THEN Nil
    ELSE IF heap[ctx].key = key THEN heap[ctx].val
    ELSE Value(heap, heap[ctx].parent, key)

\* Trace{ID, SpanID, Sampled}
Trace(id, spanID, sampled) ==
    [type |-> "Trace", ID |-> id, SpanID |-> spanID, Sampled |-> sampled]

\* a faulty Context: replaces a Trace node instead of deriving from it
Context_Replacing(heap, g, trace, ctx) ==
    IF ctx # Background /\ heap[ctx].key = [type |-> "traceparent.traceContextKeyT", v |-> "{}"]
    THEN heap @@ (NewRef(heap, g) :>
                    [parent |-> heap[ctx].parent,
                     key |-> [type |-> "traceparent.traceContextKeyT", v |-> "{}"],
                     val |-> trace])
    ELSE heap @@ (NewRef(heap, g) :>
                    [parent |-> ctx,
                     key |-> [type |-> "traceparent.traceContextKeyT", v |-> "{}"],
                     val |-> trace])

\* func (trace Trace) Context(ctx) context.Context
Context(heap, g, trace, ctx) == WithValue(heap, g, ctx, traceContextKeyT, trace)

\* trace, ok := ctx.Value(traceContextKeyT{}).(Trace)
Lookup(heap, ctx) ==
    LET v == Value(heap, ctx, traceContextKeyT)
    IN  [trace |-> v, ok |-> v.type = "Trace"]

(***************************************************************************)
(* Requests.  A request is [obj, header, body, ctx]: obj is the identity   *)
(* of the *http.Request object (the request number and how many shallow    *)
(* copies r.WithContext made on the way), header is the traceparent entry  *)
(* of r.Header, body stands for everything else the request carries.       *)
(***************************************************************************)
\* r.Header.Get("traceparent"): "" when the header is missing
HeaderGet(r) == IF r.header.present THEN r.header.value ELSE <<>>

\* r.WithContext(ctx): a shallow copy of r with its context changed
WithContext(r, ctx) ==
    [r EXCEPT !.obj = [@ EXCEPT !.copy = @ + 1], !.ctx = ctx]

\* flags & 1 on the two's complement representation
Bit0(n) == n % 2

(***************************************************************************)
(* Faulty variants of fn, used to show that the properties below depend on *)
(* the code.                                                               *)
(***************************************************************************)
\* takes a header of more than four segments
fn_AtLeastFour(heap, g, w, r) ==
    LET traceparent == Split(HeaderGet(r), "-")
    IN  IF Len(traceparent) >= NumSegments /\ traceparent[1] = <<"0", "0">>
        THEN LET p == ParseInt(traceparent[4], FlagsBase, FlagsBitSize)
             IN  IF p.err = "nil"
                 THEN LET trace == Trace(traceparent[2], traceparent[3], Bit0(p.n) # 0)
                          ctx == NewRef(heap, g)
                      IN  [heap |-> Context(heap, g, trace, r.ctx),
                           calls |-> <<[w |-> w, r |-> WithContext(r, ctx)]>>]
                 ELSE [heap |-> heap, calls |-> <<[w |-> w, r |-> r]>>]
        ELSE [heap |-> heap, calls |-> <<[w |-> w, r |-> r]>>]

\* stores the segments the wrong way round
fn_SwapIDs(heap, g, w, r) ==
    LET traceparent == Split(HeaderGet(r), "-")
    IN  IF Len(traceparent) = NumSegments /\ traceparent[1] = <<"0", "0">>
        THEN LET p == ParseInt(traceparent[4], FlagsBase, FlagsBitSize)
             IN  IF p.err = "nil"
                 THEN LET trace == Trace(traceparent[3], traceparent[2], Bit0(p.n) # 0)
                          ctx == NewRef(heap, g)
                      IN  [heap |-> Context(heap, g, trace, r.ctx),
                           calls |-> <<[w |-> w, r |-> WithContext(r, ctx)]>>]
                 ELSE [heap |-> heap, calls |-> <<[w |-> w, r |-> r]>>]
        ELSE [heap |-> heap, calls |-> <<[w |-> w, r |-> r]>>]

\* forgets the call to next when the flags do not parse
fn_DropOnError(heap, g, w, r) ==
    LET traceparent == Split(HeaderGet(r), "-")
    IN  IF Len(traceparent) = NumSegments /\ traceparent[1] = <<"0", "0">>
        THEN LET p == ParseInt(traceparent[4], FlagsBase, FlagsBitSize)
             IN  IF p.err = "nil"
                 THEN LET trace == Trace(traceparent[2], traceparent[3], Bit0(p.n) # 0)
                          ctx == NewRef(heap, g)
                      IN  [heap |-> Context(heap, g, trace, r.ctx),
                           calls |-> <<[w |-> w, r |-> WithContext(r, ctx)]>>]
                 ELSE [heap |-> heap, calls |-> <<>>]
        ELSE [heap |-> heap, calls |-> <<[w |-> w, r |-> r]>>]

(***************************************************************************)
(* The handler New returns, fn(w, r), run by goroutine g: the heap after   *)
(* the call and the calls it made to next.ServeHTTP, in order.             *)
(***************************************************************************)
fn(heap, g, w, r) ==
    LET traceparent == Split(HeaderGet(r), "-")
    IN  IF Len(traceparent) = NumSegments /\ traceparent[1] = <<"0", "0">>
        THEN LET p == ParseInt(traceparent[4], FlagsBase, FlagsBitSize)
             IN  IF p.err = "nil"
                 THEN LET trace == Trace(traceparent[2], traceparent[3], Bit0(p.n) # 0)
                          ctx == NewRef(heap, g)
                      IN  [heap |-> Context(heap, g, trace, r.ctx),
                           calls |-> <<[w |-> w, r |-> WithContext(r, ctx)]>>]
                 ELSE [heap |-> heap, calls |-> <<[w |-> w, r |-> r]>>]
        ELSE [heap |-> heap, calls |-> <<[w |-> w, r |-> r]>>]

(***************************************************************************)
(* Faulty variants of the extractor.                                       *)
(***************************************************************************)
\* emits the span id under the spanID key
TraceParentExtractor_SpanValue(heap, ctx, recordT, recordLvl, recordMsg) ==
    LET l == [trace |-> Value(heap, ctx, traceContextKeyT),
              ok |-> Value(heap, ctx, traceContextKeyT).type = "Trace"]
        trace == l.trace
    IN  IF ~l.ok THEN <<>>
        ELSE IF trace.ID = <<>> THEN <<>>
        ELSE LET attrs == <<[key |-> "traceID", kind |-> "String", value |-> trace.ID],
                            [key |-> "traceSampled", kind |-> "Bool", value |-> trace.Sampled]>>
             IN  IF trace.SpanID # <<>>
                 THEN Append(attrs, [key |-> "spanID", kind |-> "String", value |-> trace.SpanID])
                 ELSE attrs

\* does not test the ID for emptiness
TraceParentExtractor_NoIDCheck(heap, ctx, recordT, recordLvl, recordMsg) ==
    LET l == [trace |-> Value(heap, ctx, traceContextKeyT),
              ok |-> Value(heap, ctx, traceContextKeyT).type = "Trace"]
        trace == l.trace
    IN  IF ~l.ok THEN <<>>
        ELSE LET attrs == <<[key |-> "traceID", kind |-> "String", value |-> trace.ID],
                            [key |-> "traceSampled", kind |-> "Bool", value |-> trace.Sampled]>>
             IN  IF trace.SpanID # <<>>
                 THEN Append(attrs, [key |-> "spanID", kind |-> "String", value |-> trace.ID])
                 ELSE attrs

(***************************************************************************)
(* TraceParentExtractor(ctx, recordT, recordLvl, recordMsg): the list of   *)
(* slog attributes, each [key, kind, value]; a nil slice is the empty list.*)
(***************************************************************************)
String(key, s) == [key |-> key, kind |-> "String", value |-> s]

Bool(key, b) == [key |-> key, kind |-> "Bool", value |-> b]

TraceParentExtractor(heap, ctx, recordT, recordLvl, recordMsg) ==
    LET l == Lookup(heap, ctx)
        trace == l.trace
    IN  IF ~l.ok THEN <<>>
        ELSE IF trace.ID = <<>> THEN <<>>
        ELSE LET attrs == <<String("traceID", trace.ID), Bool("traceSampled", trace.Sampled)>>
             IN  IF trace.SpanID # <<>>
                 THEN Append(attrs, String("spanID", trace.ID))
                 ELSE attrs

(***************************************************************************)
(* Inputs: the header values requests arrive with.                         *)
(***************************************************************************)
RECURSIVE Join(_, _)
Join(parts, sep) ==
    IF Len(parts) = 0 THEN <<>>
    ELSE IF Len(parts) = 1 THEN parts[1]
    ELSE parts[1] \o <<sep>> \o Join(Tail(parts), sep)

\* 4bf92f3577b34da6a3ce929d0e0e4736
ExampleID ==
    <<"4", "b", "f", "9", "2", "f", "3", "5", "7", "7", "b", "3", "4", "d", "a", "6",
      "a", "3", "c", "e", "9", "2", "9", "d", "0", "e", "0", "e", "4", "7", "3", "6">>

\* 00f067aa0ba902b7
ExampleSpanID ==
    <<"0", "0", "f", "0", "6", "7", "a", "a", "0", "b", "a", "9", "0", "2", "b", "7">>

\* 0af7651916cd43dd8448eb211c80319c
OtherID ==
    <<"0", "a", "f", "7", "6", "5", "1", "9", "1", "6", "c", "d", "4", "3", "d", "d",
      "8", "4", "4", "8", "e", "b", "2", "1", "1", "c", "8", "0", "3", "1", "9", "c">>

\* b7ad6b7169203331
OtherSpanID ==
    <<"b", "7", "a", "d", "6", "b", "7", "1", "6", "9", "2", "0", "3", "3", "3", "1">>

HexLower == {DigitChars[k] : k \in 1..Len(DigitChars)}

\* every two-digit lower-case hex flags byte, 00..ff
TwoHex == {<<a, b>> : a \in HexLower, b \in HexLower}

\* flags segments that are not two lower-case hex digits
OddFlags ==
    {<<>>, <<"0">>, <<"1">>, <<"+", "1">>, <<"+", "0">>, <<"+", "7", "f">>,
     <<"+", "8", "0">>, <<"+">>, <<"g", "1">>, <<"1", "g">>, <<"z", "z">>,
     <<"1", "0", "0">>, <<"0", "0", "1">>, <<"0", "7", "f">>, <<"0", "8", "0">>,
     <<"7", "F">>, <<"F", "F">>, <<"0", "1">> \o <<" ">>, <<"0", "x", "1">>,
     <<"1", "_", "1">>}

Present(v) == [present |-> TRUE, value |-> v]

Absent == [present |-> FALSE, value |-> <<>>]

\* headers of the W3C form 00-<32 hex>-<16 hex>-<2 hex>
WellFormed ==
    {Join(<<(<<"0", "0">>), ExampleID, ExampleSpanID, f>>, "-") : f \in TwoHex}
    \cup {Join(<<(<<"0", "0">>), OtherID, OtherSpanID, f>>, "-") :
            f \in {<<"0", "0">>, <<"0", "1">>, <<"8", "1">>}}

\* version 00 and four segments, every kind of flags segment and of id
OddFlagHeaders ==
    {Join(<<(<<"0", "0">>), id, span, f>>, "-") :
        id \in {<<"a", "b", "c">>, <<>>},
        span \in {<<"d", "e", "f">>, <<>>},
        f \in OddFlags \cup {<<"0", "1">>, <<"0", "0">>, <<"8", "0">>, <<"f", "f">>}}

SegPool == {<<>>, <<"0", "0">>, <<"z">>}

\* one to MaxParts segments of SegPool joined by "-"
Generated ==
    {Join(parts, "-") : parts \in UNION {[1..n -> SegPool] : n \in 1..MaxParts}}

\* four segments, a flags byte that parses, a version other than 00
OddVersionHeaders ==
    {Join(<<v, ExampleID, ExampleSpanID, (<<"0", "1">>)>>, "-") :
        v \in {<<>>, <<"0">>, <<"0", "1">>, <<"f", "f">>, <<"0", "0", "0">>, <<"+", "0">>}}

WideHeaders ==
    {Absent} \cup
    {Present(v) : v \in WellFormed \cup OddFlagHeaders \cup OddVersionHeaders \cup Generated}

H(parts) == Present(Join(parts, "-"))

\* the headers of the concurrent runs: one of each kind
FewHeaders ==
    {Absent,
     H(<<(<<"0", "0">>), (<<"a", "b", "c">>), (<<"d", "e", "f">>), (<<"0", "1">>)>>),
     H(<<(<<"0", "0">>), (<<"1", "2", "3">>), (<<"4", "5">>), (<<"0", "0">>)>>),
     H(<<(<<"0", "0">>), (<<>>), (<<"d", "e", "f">>), (<<"0", "1">>)>>)}

(***************************************************************************)
(* The server.  The handler chain is New applied depth times to an inner   *)
(* handler; every request runs in its own goroutine.  The inner handler    *)
(* derives further contexts under keys of its own and logs through the     *)
(* extractor.                                                              *)
(***************************************************************************)
VARIABLES
    heap,     \* the context nodes allocated so far
    depth,    \* how many times New wraps the inner handler
    wide,     \* TRUE: one request, headers of every shape; FALSE: NumReq requests
    bases,    \* the contexts a request can arrive with
    pc,       \* pc[i]: "idle", "mw", "inner", "done"; "dropped" when a layer of
              \* New returned without calling its next handler
    orig,     \* orig[i]: the request as it arrived
    layer,    \* layer[i]: how many layers of New the request has passed
    calls,    \* calls[i]: the calls to next.ServeHTTP made for the request
    cur,      \* cur[i]: the context the inner handler holds
    logged    \* logged[i]: the context of the last call of the extractor, its result

vars == <<heap, depth, wide, bases, pc, orig, layer, calls, cur, logged>>

Reqs == 1..NumReq

NoReq ==
    [obj |-> [req |-> 0, copy |-> 0], header |-> Absent, body |-> [method |-> "", payload |-> 0],
     ctx |-> Background]

NoLog == [called |-> FALSE, ctx |-> Background, attrs |-> <<>>]

\* http.ServerContextKey: a key of another package, set by the server
ServerContextKey == [type |-> "http.contextKey", v |-> "http-server"]

\* the server's base context, <<0, 1>>: one node under the server's own key
ServerHeap ==
    WithValue(<<>>, 0, Background, ServerContextKey, [type |-> "*http.Server", v |-> "srv"])

BaseCtx == <<0, 1>>

\* the response writer of request i
Writer(i) == [conn |-> i]

\* a Trace attached by a caller of the exported Trace.Context before the
\* request reaches the middleware
PreTrace == Trace(<<"p", "r", "e">>, <<"s", "p">>, FALSE)

\* keys the inner handler uses: a string and a struct type of its own
\* package that merely has the same name
OtherKeys ==
    <<[type |-> "string", v |-> "traceContextKeyT"],
      [type |-> "app.traceContextKeyT", v |-> "{}"]>>

\* values stored under them: a string, and a Trace of the application's own
OtherVals ==
    <<[type |-> "string", v |-> "user"],
      Trace(<<"a", "p", "p">>, <<"a", "p", "p">>, TRUE)>>

\* (recordT, recordLvl, recordMsg) of the records the handler logs
LogArgs ==
    {[recordT |-> 0, recordLvl |-> -4, recordMsg |-> "incoming"],
     [recordT |-> 1, recordLvl |-> 8, recordMsg |-> ""]}

\* what request i carries besides its traceparent header and its context
Body(i) == [method |-> "GET", payload |-> i]

Active == IF wide THEN {1} ELSE Reqs

Headers == IF wide THEN WideHeaders ELSE FewHeaders

InitWith(h, b, w) ==
    /\ heap = h
    /\ bases = b
    /\ wide = w
    /\ depth \in 1..MaxLayers
    /\ pc = [i \in Reqs |-> "idle"]
    /\ orig = [i \in Reqs |-> NoReq]
    /\ layer = [i \in Reqs |-> 0]
    /\ calls = [i \in Reqs |-> <<>>]
    /\ cur = [i \in Reqs |-> Background]
    /\ logged = [i \in Reqs |-> NoLog]

\* requests arrive with the server's base context
Init == InitWith(ServerHeap, {BaseCtx}, FALSE)

\* one request, with context.Background or the server's base context
InitWide == InitWith(ServerHeap, {Background, BaseCtx}, TRUE)

\* a request can also arrive with a context that already carries a Trace
InitPre == InitWith(Context(ServerHeap, 0, PreTrace, BaseCtx), {BaseCtx, <<0, 2>>}, FALSE)

\* the request the next stage of request i receives
Current(i) == IF calls[i] = <<>> THEN orig[i] ELSE calls[i][Len(calls[i])].r

\* the server accepts request i and hands it to the outermost handler
\* (requests are numbered in the order they are accepted)
Arrive(i) ==
    /\ i \in Active
    /\ pc[i] = "idle"
    /\ \A j \in 1..(i - 1) : pc[j] # "idle"
    /\ \E h \in Headers, c \in bases :
          orig' = [orig EXCEPT ![i] =
                     [obj |-> [req |-> i, copy |-> 0], header |-> h, body |-> Body(i),
                      ctx |-> c]]
    /\ pc' = [pc EXCEPT ![i] = "mw"]
    /\ UNCHANGED <<heap, depth, wide, bases, layer, calls, cur, logged>>

\* one layer of New runs fn on the request it was handed; its calls to next
\* reach the next layer, or the inner handler after the last layer
Serve(i) ==
    /\ pc[i] = "mw"
    /\ LET out == fn(heap, i, Writer(i), Current(i))
           made == [k \in 1..Len(out.calls) |->
                      [w |-> out.calls[k].w, r |-> out.calls[k].r, layer |-> layer[i] + 1]]
       IN  /\ Cardinality(DOMAIN out.heap) <= MaxCtx
           /\ heap' = out.heap
           /\ calls' = [calls EXCEPT ![i] = @ \o made]
           /\ layer' = [layer EXCEPT ![i] = @ + 1]
           /\ IF Len(out.calls) = 0
              THEN /\ pc' = [pc EXCEPT ![i] = "dropped"]
                   /\ cur' = cur
              ELSE IF layer[i] + 1 = depth
              THEN /\ pc' = [pc EXCEPT ![i] = "inner"]
                   /\ cur' = [cur EXCEPT ![i] = out.calls[Len(out.calls)].r.ctx]
              ELSE /\ pc' = pc
                   /\ cur' = cur
    /\ UNCHANGED <<depth, wide, bases, orig, logged>>

\* the inner handler derives a context under a key of its own
InnerDerive(i) ==
    /\ pc[i] = "inner"
    /\ Cardinality(DOMAIN heap) < MaxCtx
    /\ \E k \in 1..Len(OtherKeys) :
          heap' = WithValue(heap, i, cur[i], OtherKeys[k], OtherVals[k])
    /\ cur' = [cur EXCEPT ![i] = NewRef(heap, i)]
    /\ UNCHANGED <<depth, wide, bases, pc, orig, layer, calls, logged>>

\* the inner handler logs a record with its context: the logging pipeline
\* calls the extractor
InnerLog(i) ==
    /\ pc[i] = "inner"
    /\ \E a \in LogArgs :
          logged' = [logged EXCEPT ![i] =
                       [called |-> TRUE, ctx |-> cur[i],
                        attrs |-> TraceParentExtractor(heap, cur[i], a.recordT,
                                                       a.recordLvl, a.recordMsg)]]
    /\ UNCHANGED <<heap, depth, wide, bases, pc, orig, layer, calls, cur>>

\* the inner handler returns, and every layer of New after it: the request,
\* the goroutine's locals and the contexts it derived (no one else holds a
\* reference to them) are dropped
Return(i) ==
    /\ pc[i] = "inner"
    /\ pc' = [pc EXCEPT ![i] = "done"]
    /\ orig' = [orig EXCEPT ![i] = NoReq]
    /\ layer' = [layer EXCEPT ![i] = 0]
    /\ calls' = [calls EXCEPT ![i] = <<>>]
    /\ cur' = [cur EXCEPT ![i] = Background]
    /\ logged' = [logged EXCEPT ![i] = NoLog]
    /\ heap' = [c \in {d \in DOMAIN heap : d[1] # i} |-> heap[c]]
    /\ UNCHANGED <<depth, wide, bases>>

Next ==
    \E i \in Reqs :
        \/ Arrive(i)
        \/ Serve(i)
        \/ InnerDerive(i)
        \/ InnerLog(i)
        \/ Return(i)

Spec == Init /\ [][Next]_vars

SpecWide == InitWide /\ [][Next]_vars

SpecPre == InitPre /\ [][Next]_vars

(***************************************************************************)
(* Vocabulary of the properties.  The shape of a header is described here  *)
(* by the positions of its dashes and by character classes, without Split  *)
(* and ParseInt.                                                           *)
(***************************************************************************)
Dashes(s) == {k \in 1..Len(s) : s[k] = "-"}

\* the position of the n-th dash; 0 before the first, Len(s)+1 after the last
DashAt(s, n) ==
    IF n = 0 THEN 0
    ELSE IF n > Cardinality(Dashes(s)) THEN Len(s) + 1
    ELSE CHOOSE k \in Dashes(s) : Cardinality({d \in Dashes(s) : d < k}) = n - 1

\* the n-th dash-separated segment
Segment(s, n) == SubSeq(s, DashAt(s, n - 1) + 1, DashAt(s, n) - 1)

HexAny == HexLower \cup {UpperChars[k] : k \in 1..Len(UpperChars)}

OddDigits == {"1", "3", "5", "7", "9", "b", "d", "f", "B", "D", "F"}

LowHalf == {"0", "1", "2", "3", "4", "5", "6", "7"}

AllIn(s, S) == \A k \in 1..Len(s) : s[k] \in S

\* four segments, the first of them 00
ShapeOK(s) == Cardinality(Dashes(s)) = 3 /\ Segment(s, 1) = <<"0", "0">>

\* 00-<32 hex>-<16 hex>-<2 hex>
W3CForm(s) ==
    /\ Len(s) = 55
    /\ Dashes(s) = {3, 36, 53}
    /\ Segment(s, 1) = <<"0", "0">>
    /\ AllIn(Segment(s, 2), HexLower) /\ AllIn(Segment(s, 3), HexLower)
    /\ AllIn(Segment(s, 4), HexLower)

RECURSIVE DropZeros(_)
DropZeros(s) == IF s # <<>> /\ s[1] = "0" THEN DropZeros(Tail(s)) ELSE s

\* a non-empty string of hex digits
IsHex(f) == f # <<>> /\ AllIn(f, HexAny)

\* a string of hex digits whose value is at most 7f
FitsInt8(f) ==
    /\ IsHex(f)
    /\ Len(DropZeros(f)) <= 2
    /\ Len(DropZeros(f)) = 2 => DropZeros(f)[1] \in LowHalf

\* the flags segments strconv.ParseInt(_, 16, 8) takes: an optional sign,
\* then hex digits of value at most 7f (no segment holds a "-")
FlagsParse(f) == FitsInt8(IF f # <<>> /\ f[1] = "+" THEN Tail(f) ELSE f)

\* bit 0 of the flags byte
FlagsOdd(f) == f # <<>> /\ f[Len(f)] \in OddDigits

\* the references from ctx up to the root, nearest first
RECURSIVE Chain(_, _)
Chain(h, ctx) == IF ctx = Background THEN <<>> ELSE <<ctx>> \o Chain(h, h[ctx].parent)

\* the nodes of the ancestry of ctx that Trace.Context made
TraceNodes(h, ctx) ==
    {k \in 1..Len(Chain(h, ctx)) : h[Chain(h, ctx)[k]].key = traceContextKeyT}

InFlight(i) == pc[i] \in {"mw", "inner"}

\* the header value request i arrived with
HeaderOf(i) == HeaderGet(orig[i])

\* the request handed to the k-th layer of New
HandedTo(i, k) == IF k = 1 THEN orig[i] ELSE calls[i][k - 1].r

\* the Trace the header of request i stands for
TraceOf(i) ==
    Trace(Segment(HeaderOf(i), 2), Segment(HeaderOf(i), 3), FlagsOdd(Segment(HeaderOf(i), 4)))

Found(t) == [trace |-> t, ok |-> TRUE]

NotFound == [trace |-> Nil, ok |-> FALSE]

(***************************************************************************)
(* C1.  For every header 00-<32 hex>-<16 hex>-<2 hex flags>, whatever the  *)
(* flags byte 00..ff, the context New passes to the next handler carries   *)
(* the Trace with ID the second segment, SpanID the third and Sampled bit  *)
(* 0 of the flags byte.                                                    *)
(***************************************************************************)
C1_EveryFlagsByteAttaches ==
    \A i \in Reqs :
        (InFlight(i) /\ Len(calls[i]) >= 1 /\ W3CForm(HeaderOf(i))) =>
            Lookup(heap, calls[i][1].r.ctx) = Found(TraceOf(i))

(***************************************************************************)
(* C2.  A header that does not split into exactly four parts, or whose     *)
(* first part is not 00 (the missing header included), makes New call the  *)
(* next handler with the very request it received: same object, same       *)
(* context, no context derived and no Trace attached.                      *)
(***************************************************************************)
C2_BadShapePassesRequestThrough ==
    \A i \in Reqs :
        (InFlight(i) /\ ~ShapeOK(HeaderOf(i))) =>
            /\ \A k \in 1..Len(calls[i]) : calls[i][k].r = orig[i]
            /\ pc[i] = "mw" => \A c \in DOMAIN heap : c[1] # i
            /\ \A c \in DOMAIN heap : c[1] = i => heap[c].key # traceContextKeyT

C2_Witness ==
    \E i \in Reqs :
        /\ pc[i] = "inner" /\ Len(calls[i]) = depth
        /\ orig[i].header.present
        /\ Cardinality(Dashes(HeaderOf(i))) = 4
        /\ Segment(HeaderOf(i), 1) = <<"0", "0">>
        /\ FlagsParse(Segment(HeaderOf(i), 4))

(***************************************************************************)
(* C3.  A header of four segments and version 00 whose flags segment is    *)
(* not hex, or does not fit the signed 8-bit range, is treated as absent:  *)
(* the next handler gets the request it arrived with, context included,    *)
(* and nothing of the header is stored.                                    *)
(***************************************************************************)
C3_BadFlagsTreatedAsAbsent ==
    \A i \in Reqs :
        (InFlight(i) /\ ShapeOK(HeaderOf(i)) /\ ~FitsInt8(Segment(HeaderOf(i), 4))) =>
            /\ \A k \in 1..Len(calls[i]) : calls[i][k].r = orig[i]
            /\ \A c \in DOMAIN heap : c[1] = i => heap[c].key # traceContextKeyT

(***************************************************************************)
(* C7.  No validation of the id segments: every header of four segments    *)
(* with version 00 and a flags segment that parses is accepted, and the    *)
(* Trace attached has ID the second and SpanID the third segment verbatim, *)
(* short, empty or non-hex as they may be; 00-abc-def-01 gives ID abc,     *)
(* SpanID def, Sampled true.                                               *)
(***************************************************************************)
C7_SegmentsStoredVerbatim ==
    \A i \in Reqs :
        (InFlight(i) /\ Len(calls[i]) >= 1 /\ ShapeOK(HeaderOf(i))
           /\ FlagsParse(Segment(HeaderOf(i), 4))) =>
            LET ctx == calls[i][1].r.ctx
            IN  /\ ctx # orig[i].ctx
                /\ heap[ctx].parent = orig[i].ctx
                /\ Lookup(heap, ctx) = Found(TraceOf(i))
                /\ HeaderOf(i) = <<"0", "0", "-", "a", "b", "c", "-", "d", "e", "f", "-", "0", "1">>
                     => Lookup(heap, ctx).trace = Trace(<<"a", "b", "c">>, <<"d", "e", "f">>, TRUE)

C7_Witness ==
    \E i \in Reqs :
        /\ pc[i] = "inner"
        /\ HeaderOf(i) = <<"0", "0", "-", "a", "b", "c", "-", "d", "e", "f", "-", "0", "1">>
        /\ Lookup(heap, cur[i]).ok

(***************************************************************************)
(* C8.  Whatever the header, every layer of New calls its next handler     *)
(* exactly once, with the response writer it was given and a request that  *)
(* differs from the one it was given in its context at most; the inner     *)
(* handler is reached by every request and runs once.                      *)
(***************************************************************************)
C8_NextCalledExactlyOnce ==
    \A i \in Reqs :
        /\ InFlight(i) =>
              /\ Len(calls[i]) = layer[i]
              /\ \A k \in 1..Len(calls[i]) :
                    /\ calls[i][k].layer = k
                    /\ calls[i][k].w = Writer(i)
                    /\ [calls[i][k].r EXCEPT !.ctx = Background, !.obj = orig[i].obj]
                         = [HandedTo(i, k) EXCEPT !.ctx = Background, !.obj = orig[i].obj]
                    /\ calls[i][k].r.obj.req = i
        /\ pc[i] = "inner" =>
              Cardinality({k \in 1..Len(calls[i]) : calls[i][k].layer = depth}) = 1
        /\ pc[i] # "dropped"

C8_Witness ==
    \E i \in Reqs :
        /\ pc[i] = "inner" /\ depth = MaxLayers
        /\ ShapeOK(HeaderOf(i)) /\ ~FlagsParse(Segment(HeaderOf(i), 4))

(***************************************************************************)
(* C4.  For a Trace T with a non-empty ID in the context, the extractor    *)
(* returns traceID = T.ID (string), then traceSampled = T.Sampled (bool),  *)
(* then a field spanID exactly when T.SpanID is not empty, whose value is  *)
(* T.ID and not T.SpanID; the timestamp, level and message make no         *)
(* difference.  For the W3C example it returns three fields, the third     *)
(* spanID = 4bf92f3577b34da6a3ce929d0e0e4736.                              *)
(***************************************************************************)
C4_FieldsOfATrace ==
    \A i \in Reqs :
        (pc[i] = "inner" /\ logged[i].called /\ Lookup(heap, logged[i].ctx).ok
           /\ Lookup(heap, logged[i].ctx).trace.ID # <<>>) =>
            LET T == Lookup(heap, logged[i].ctx).trace
                two == <<[key |-> "traceID", kind |-> "String", value |-> T.ID],
                         [key |-> "traceSampled", kind |-> "Bool", value |-> T.Sampled]>>
                third == [key |-> "spanID", kind |-> "String", value |-> T.ID]
            IN  /\ logged[i].attrs = IF T.SpanID # <<>> THEN Append(two, third) ELSE two
                /\ \A a \in LogArgs :
                      TraceParentExtractor(heap, logged[i].ctx, a.recordT, a.recordLvl,
                                           a.recordMsg) = logged[i].attrs
                /\ T = Trace(ExampleID, ExampleSpanID, TRUE) =>
                      /\ Len(logged[i].attrs) = 3
                      /\ logged[i].attrs[3].key = "spanID"
                      /\ logged[i].attrs[3].value = ExampleID

C4_Witness ==
    /\ \E i \in Reqs :
          /\ pc[i] = "inner" /\ logged[i].called
          /\ Lookup(heap, logged[i].ctx) = Found(Trace(ExampleID, ExampleSpanID, TRUE))
          /\ Len(logged[i].attrs) = 3

\* the same for a Trace without a span id: two fields
C4_WitnessNoSpan ==
    \E i \in Reqs :
        /\ pc[i] = "inner" /\ logged[i].called
        /\ Lookup(heap, logged[i].ctx).ok
        /\ Lookup(heap, logged[i].ctx).trace.ID # <<>>
        /\ Lookup(heap, logged[i].ctx).trace.SpanID = <<>>
        /\ Len(logged[i].attrs) = 2

(***************************************************************************)
(* C5.  The extractor returns no field for a context without a Trace and   *)
(* for a context whose Trace has the empty ID, whatever its SpanID and     *)
(* Sampled; a header 00--<span>-01 is accepted by the middleware, stored   *)
(* with the empty ID, and gives no log field.                              *)
(***************************************************************************)
C5_NoFieldsWithoutAnID ==
    \A i \in Reqs :
        (pc[i] = "inner" /\ logged[i].called) =>
            /\ ~Lookup(heap, logged[i].ctx).ok => logged[i].attrs = <<>>
            /\ (Lookup(heap, logged[i].ctx).ok /\ Lookup(heap, logged[i].ctx).trace.ID = <<>>)
                 => logged[i].attrs = <<>>
            /\ (ShapeOK(HeaderOf(i)) /\ Segment(HeaderOf(i), 2) = <<>>
                  /\ FlagsParse(Segment(HeaderOf(i), 4))) =>
                    /\ Lookup(heap, logged[i].ctx).ok
                    /\ Lookup(heap, logged[i].ctx).trace.ID = <<>>
                    /\ logged[i].attrs = <<>>

C5_Witness ==
    \E i \in Reqs :
        /\ pc[i] = "inner" /\ logged[i].called
        /\ Lookup(heap, logged[i].ctx).ok
        /\ Lookup(heap, logged[i].ctx).trace.ID = <<>>
        /\ Lookup(heap, logged[i].ctx).trace.SpanID # <<>>
        /\ Lookup(heap, logged[i].ctx).trace.Sampled

(***************************************************************************)
(* C6.  Lookup on a context derived from one that carries Trace T returns  *)
(* T, after any further derivations under other keys: no value stored by   *)
(* other code collides with the carrier or replaces it.  Lookup on a       *)
(* context with no Trace.Context in its ancestry reports not found.        *)
(***************************************************************************)
C6_CarrierSurvivesNesting ==
    \A i \in Reqs :
        pc[i] = "inner" =>
            LET handed == Current(i).ctx
            IN  /\ Lookup(heap, cur[i]) = Lookup(heap, handed)
                /\ (handed # Background /\ heap[handed].key = traceContextKeyT) =>
                      Lookup(heap, cur[i]) = Found(heap[handed].val)
                /\ TraceNodes(heap, cur[i]) = {} => Lookup(heap, cur[i]) = NotFound

\* two derivations under foreign keys, one of them storing a Trace of the
\* application, on top of the carrier
C6_Witness ==
    \E i \in Reqs :
        /\ pc[i] = "inner"
        /\ Len(Chain(heap, cur[i])) >= 4
        /\ heap[cur[i]].key # traceContextKeyT
        /\ heap[cur[i]].val.type = "Trace"
        /\ heap[heap[cur[i]].parent].key # traceContextKeyT
        /\ heap[Current(i).ctx].key = traceContextKeyT
        /\ Lookup(heap, cur[i]).ok

(***************************************************************************)
(* C9.  However concurrently handled requests interleave, the inner        *)
(* handler of a request, and the extractor called with its context, see    *)
(* the Trace of that request's own header, or none when the header did not *)
(* parse; never the Trace of another request; and deriving the child       *)
(* context leaves lookup on the parent context as it was.                  *)
(***************************************************************************)
C9_RequestsAreIsolated ==
    \A i \in Reqs :
        LET parses == ShapeOK(HeaderOf(i)) /\ FlagsParse(Segment(HeaderOf(i), 4))
            own == IF parses THEN Found(TraceOf(i)) ELSE NotFound
        IN  /\ InFlight(i) => Lookup(heap, orig[i].ctx) = NotFound
            /\ pc[i] = "inner" =>
                  /\ Lookup(heap, cur[i]) = own
                  /\ logged[i].called =>
                        logged[i].attrs =
                            IF own.ok /\ own.trace.ID # <<>>
                            THEN <<[key |-> "traceID", kind |-> "String", value |-> own.trace.ID],
                                   [key |-> "traceSampled", kind |-> "Bool",
                                    value |-> own.trace.Sampled]>>
                                 \o (IF own.trace.SpanID # <<>>
                                     THEN <<[key |-> "spanID", kind |-> "String",
                                             value |-> own.trace.ID]>>
                                     ELSE <<>>)
                            ELSE <<>>

\* two requests in their inner handlers at once, with different Traces
C9_Witness ==
    \E i, j \in Reqs :
        /\ i # j /\ pc[i] = "inner" /\ pc[j] = "inner"
        /\ Lookup(heap, cur[i]).ok /\ Lookup(heap, cur[j]).ok
        /\ Lookup(heap, cur[i]) # Lookup(heap, cur[j])
        /\ logged[i].called /\ logged[j].called

\* a request without a Trace next to one that carries a Trace
C9_WitnessNone ==
    \E i, j \in Reqs :
        /\ i # j /\ pc[i] = "inner" /\ pc[j] = "inner"
        /\ Lookup(heap, cur[i]).ok /\ ~Lookup(heap, cur[j]).ok

(***************************************************************************)
(* C10.  The context of a request holds at most one Trace in its ancestry, *)
(* in every reachable state, also when New wraps a handler that New        *)
(* already wraps and when the request arrives with a context that carries  *)
(* a Trace; only the middleware creates the association.                   *)
(***************************************************************************)
C10_AtMostOneTraceInAncestry ==
    \A i \in Reqs :
        InFlight(i) =>
            /\ Cardinality(TraceNodes(heap, Current(i).ctx)) <= 1
            /\ pc[i] = "inner" => Cardinality(TraceNodes(heap, cur[i])) <= 1

(***************************************************************************)
(* C10, as amended.  The ancestry of a request's context holds one Trace   *)
(* for every layer of New the request has passed with a header that        *)
(* parses, and one more when the request arrived with a context that       *)
(* already carried a Trace: more than one when New is nested or the        *)
(* context arrives with a Trace.  Lookup yields one of them only, the one  *)
(* attached last.  The middleware attaches exactly one per layer that      *)
(* parses; contexts the inner handler derives under its own keys add none. *)
(***************************************************************************)
C10_OneTracePerAttachment ==
    \A i \in Reqs :
        InFlight(i) =>
            LET parses == ShapeOK(HeaderOf(i)) /\ FlagsParse(Segment(HeaderOf(i), 4))
                before == Cardinality(TraceNodes(heap, orig[i].ctx))
                made == IF parses THEN layer[i] ELSE 0
                ctx == IF pc[i] = "inner" THEN cur[i] ELSE Current(i).ctx
            IN  /\ Cardinality(TraceNodes(heap, ctx)) = before + made
                /\ Cardinality({c \in DOMAIN heap : c[1] = i /\ heap[c].key = traceContextKeyT})
                     = made
                /\ Lookup(heap, ctx) =
                     IF made > 0 THEN Found(TraceOf(i))
                     ELSE IF before > 0 THEN Found(PreTrace)
                     ELSE NotFound

\* a request that arrived with a Trace and passed two layers of New: three
\* Traces in the ancestry of its context
C10_Witness ==
    \E i \in Reqs :
        /\ pc[i] = "inner"
        /\ Cardinality(TraceNodes(heap, cur[i])) = 3
        /\ Lookup(heap, orig[i].ctx) = Found(PreTrace)
        /\ Lookup(heap, cur[i]) = Found(TraceOf(i))

====
